---- MODULE Spec2Model ----
(***************************************************************************)
(* Bookstore API (src/app.py): token login, filtered / sorted / paginated  *)
(* book listing, and admin-gated create / patch / delete over one table,   *)
(* behind a body-size middleware and a per-client rate limiter.            *)
(*                                                                         *)
(* One request is one atomic step: the body-size middleware, the limiter   *)
(* middleware, request parsing and dependency resolution (the guard), the  *)
(* limiter decorator, then the handler body.                               *)
(*                                                                         *)
(* Time is counted in ticks of 1/TicksPerSec second, so that the           *)
(* truncation of the token expiry to whole seconds is visible.             *)
(***************************************************************************)
EXTENDS Integers, Sequences, FiniteSets, TLC

VARIABLES books, hits, issued, now, last, nreq, focus, mwDefaults, pager

vars == <<books, hits, issued, now, last, nreq, focus, mwDefaults, pager>>

\* ------------------------------------------------------------------ settings
JWT_SECRET == "change-me-in-secrets"
ACCESS_TOKEN_MINUTES == 60
MAX_BODY == 1048576
DefaultPerMinute == 60
LoginPerMinute == 5
ListPerMinute == 60
CreatePerMinute == 10
GetPerMinute == 10
PatchPerMinute == 10
LimitMin == 1
LimitMax == 100

\* ------------------------------------------------------------------ bounds
TicksPerSec == 2
MaxId == 3
MaxIssued == 3
MaxReq == 2
MaxReqBooks == 3
MaxReqToken == 3
MaxReqRate == 12
MaxTicks == 1
MaxMinutes == 2
MaxPages == 4
MaxLimit == 2

None == "None"
NoField == "NoField"
NoExp == -1

\* Optional values: <<>> is None / absent, <<v>> is the value v.
Nothing == <<>>
Some(v) == <<v>>

Max(S) == CHOOSE x \in S : \A y \in S : y <= x
Min2(a, b) == IF a <= b THEN a ELSE b

\* Whole seconds of a clock value: timegm(dt.utctimetuple()) drops the fraction.
Seconds(t) == t \div TicksPerSec
Minute == 60 * TicksPerSec

Clients == {"c1", "c2"}
Routes == {"health", "login", "list", "create", "get", "patch", "delete"}
AdminRoutes == {"create", "patch", "delete"}
BodyRoutes == {"login", "create", "patch"}

\* ------------------------------------------------------------------ credentials
DEMO_USERS == [u \in {"admin", "user"} |-> [password |-> "password", role |-> u]]

\* ------------------------------------------------------------------ tokens
\* A token string: shape "garbage" is not three base64 segments; shape "jwt" is
\* a payload signed with `key`.  sub / role may be missing (NoField), exp may be
\* missing (NoExp).
Token(shape, key, sub, role, exp) ==
    [shape |-> shape, key |-> key, sub |-> sub, role |-> role, exp |-> exp]

GarbageToken == Token("garbage", "none", NoField, NoField, NoExp)

create_access_token(sub, role, t) ==
    Token("jwt", JWT_SECRET, sub, role, Seconds(t) + ACCESS_TOKEN_MINUTES * 60)

\* A decode that already rejects a token in the second of its expiry.
jwt_decode_ok_early(token, t) ==
    /\ token.shape = "jwt"
    /\ token.key = JWT_SECRET
    /\ (token.exp = NoExp \/ token.exp > Seconds(t))

\* jwt.decode(token, JWT_SECRET, algorithms=[JWT_ALG]): TRUE when it returns the
\* payload, FALSE when it raises JWTError (malformed, bad signature, or
\* exp < whole-second now).
jwt_decode_ok(token, t) ==
    /\ token.shape = "jwt"
    /\ token.key = JWT_SECRET
    /\ (token.exp = NoExp \/ ~(token.exp < Seconds(t)))

\* ------------------------------------------------------------------ guard
\* A header value is a sequence of atoms: a space, a scheme word, or a token.
Atom(k, w, tok) == [k |-> k, w |-> w, tok |-> tok]
SP == Atom("sp", " ", GarbageToken)
Word(w) == Atom("word", w, GarbageToken)
Tok(tok) == Atom("tok", "", tok)

\* authorization.split(" ")
RECURSIVE split(_)
split(h) ==
    IF h = <<>> THEN << <<>> >>
    ELSE LET rest == split(Tail(h))
         IN IF Head(h).k = "sp" THEN << <<>> >> \o rest
            ELSE << <<Head(h)>> \o rest[1] >> \o Tail(rest)

\* scheme.lower() of a part
lower(part) ==
    [i \in 1..Len(part) |->
        IF part[i].k # "word" THEN part[i].w
        ELSE IF part[i].w \in {"Bearer", "BEARER", "bearer"} THEN "bearer"
        ELSE IF part[i].w \in {"Basic", "basic"} THEN "basic"
        ELSE part[i].w]

\* The token string of a header part: exactly one token atom is that token,
\* anything else (empty, a word, several atoms) is no JWT.
AsToken(part) == IF Len(part) = 1 /\ part[1].k = "tok" THEN part[1].tok ELSE GarbageToken

\* authorization: Nothing when the header is absent (Header(...) is required:
\* FastAPI answers 422 without calling the function), Some(header) otherwise.
get_current_user(authorization, t) ==
    IF authorization = Nothing THEN [status |-> 422, username |-> None, role |-> None]
    ELSE LET parts == split(authorization[1])
         IN IF Len(parts) # 2 \/ lower(parts[1]) # <<"bearer">>
            THEN [status |-> 401, username |-> None, role |-> None]
            ELSE LET token == AsToken(parts[2])
                 IN IF ~jwt_decode_ok(token, t)
                    THEN [status |-> 401, username |-> None, role |-> None]
                    ELSE IF token.sub = NoField \/ token.role = NoField
                    THEN [status |-> 500, username |-> None, role |-> None]
                    ELSE [status |-> 200, username |-> token.sub, role |-> token.role]

require_admin(authorization, t) ==
    LET user == get_current_user(authorization, t)
    IN IF user.status # 200 THEN user
       ELSE IF user.role # "admin" THEN [status |-> 403, username |-> None, role |-> None]
       ELSE user

\* ------------------------------------------------------------------ strings
\* Titles, authors and search terms are sequences of one-character strings.
Code(ch) == CASE ch = "%" -> 37 [] ch = "A" -> 65 [] ch = "B" -> 66 [] ch = "_" -> 95
              [] ch = "a" -> 97 [] ch = "b" -> 98 [] OTHER -> 0

\* SQLite folds ASCII case in LIKE.
Fold(ch) == CASE ch = "A" -> "a" [] ch = "B" -> "b" [] OTHER -> ch

\* SQLite's default BINARY collation: byte-wise, a proper prefix sorts first.
RECURSIVE StrLess(_, _)
StrLess(s, t) ==
    IF t = <<>> THEN FALSE
    ELSE IF s = <<>> THEN TRUE
    ELSE IF Code(Head(s)) # Code(Head(t)) THEN Code(Head(s)) < Code(Head(t))
    ELSE StrLess(Tail(s), Tail(t))

\* column LIKE pattern: % matches any run, _ any one character.
RECURSIVE Like(_, _)
Like(pattern, s) ==
    IF pattern = <<>> THEN s = <<>>
    ELSE IF Head(pattern) = "%"
         THEN Like(Tail(pattern), s) \/ (s # <<>> /\ Like(pattern, Tail(s)))
    ELSE IF s = <<>> THEN FALSE
    ELSE IF Head(pattern) = "_" THEN Like(Tail(pattern), Tail(s))
    ELSE Fold(Head(pattern)) = Fold(Head(s)) /\ Like(Tail(pattern), Tail(s))

\* ------------------------------------------------------------------ books
\* The six BookIn / BookPatch fields; a row adds id and created_at.
Fields == {"title", "author", "genre", "price", "isbn", "popularity"}

Book(id, data, t) ==
    [id |-> id, title |-> data.title, author |-> data.author, genre |-> data.genre,
     price |-> data.price, isbn |-> data.isbn, popularity |-> data.popularity,
     created_at |-> t]

\* Integer primary key of a SQLite table without AUTOINCREMENT: largest rowid + 1.
NewId(b) == IF DOMAIN b = {} THEN 1 ELSE Max(DOMAIN b) + 1

\* ------------------------------------------------------------------ list_books
\* An ordering that forgets popularity is descending.
RowBefore_asc(sort, a, b) ==
    IF sort = "popularity"
    THEN a.popularity < b.popularity \/ (a.popularity = b.popularity /\ a.id < b.id)
    ELSE IF sort = "price"
    THEN a.price < b.price \/ (a.price = b.price /\ a.id < b.id)
    ELSE StrLess(a.title, b.title) \/ (a.title = b.title /\ a.id < b.id)

\* ORDER BY <sort key>, id ASC
RowBefore(sort, a, b) ==
    IF sort = "popularity"
    THEN a.popularity > b.popularity \/ (a.popularity = b.popularity /\ a.id < b.id)
    ELSE IF sort = "price"
    THEN a.price < b.price \/ (a.price = b.price /\ a.id < b.id)
    ELSE StrLess(a.title, b.title) \/ (a.title = b.title /\ a.id < b.id)

RECURSIVE order_by(_, _)
order_by(rows, sort) ==
    IF rows = {} THEN <<>>
    ELSE LET first == CHOOSE r \in rows : \A o \in rows \ {r} : RowBefore(sort, r, o)
         IN <<first>> \o order_by(rows \ {first}, sort)

\* A WHERE clause whose cursor keeps the cursor's own row.
Selected_from(row, q) ==
    /\ (q.search # Nothing /\ q.search[1] # <<>>) =>
          LET like == <<"%">> \o q.search[1] \o <<"%">>
          IN Like(like, row.title) \/ Like(like, row.author)
    /\ (q.genre # Nothing /\ q.genre[1] # "") => row.genre = q.genre[1]
    /\ (q.author # Nothing /\ q.author[1] # <<>>) => row.author = q.author[1]
    /\ (q.cursor # Nothing /\ q.cursor[1] # 0) => row.id >= q.cursor[1]

\* The WHERE clause built from the query parameters (a falsy parameter adds none).
Selected(row, q) ==
    /\ (q.search # Nothing /\ q.search[1] # <<>>) =>
          LET like == <<"%">> \o q.search[1] \o <<"%">>
          IN Like(like, row.title) \/ Like(like, row.author)
    /\ (q.genre # Nothing /\ q.genre[1] # "") => row.genre = q.genre[1]
    /\ (q.author # Nothing /\ q.author[1] # <<>>) => row.author = q.author[1]
    /\ (q.cursor # Nothing /\ q.cursor[1] # 0) => row.id > q.cursor[1]

limit_rows(rows, n) == SubSeq(rows, 1, Min2(n, Len(rows)))

\* The handler body of GET /books: the status and the rows returned.
list_books(b, q) ==
    IF q.sort \notin {"popularity", "price", "title"}
    THEN [status |-> 400, items |-> <<>>]
    ELSE LET rows == {b[i] : i \in {j \in DOMAIN b : Selected(b[j], q)}}
         IN [status |-> 200, items |-> limit_rows(order_by(rows, q.sort), q.limit)]

\* ------------------------------------------------------------------ patch_book
\* A dump without exclude_none: every field that was sent, null or not.
updates_sent(data) == {k \in Fields : data.sent[k] # "unset"}

\* data.model_dump(exclude_unset=True, exclude_none=True): the fields that were
\* sent and are not null.  data.sent[k] is "unset", "null" or "value".
updates(data) == {k \in Fields : data.sent[k] = "value"}

apply_updates(book, data) ==
    [book EXCEPT !.title = IF "title" \in updates(data) THEN data.val.title ELSE @,
                 !.author = IF "author" \in updates(data) THEN data.val.author ELSE @,
                 !.genre = IF "genre" \in updates(data) THEN data.val.genre ELSE @,
                 !.price = IF "price" \in updates(data) THEN data.val.price ELSE @,
                 !.isbn = IF "isbn" \in updates(data) THEN data.val.isbn ELSE @,
                 !.popularity = IF "popularity" \in updates(data) THEN data.val.popularity ELSE @]

\* ------------------------------------------------------------------ limiter
\* In-memory fixed-window storage of the limiter: one counter and its expiry
\* per (client address, route, limit).  [n |-> 0, exp |-> 0] is "no entry".
Decorated == {"login", "list", "create", "get", "patch"}

RouteLimit(route) ==
    CASE route = "login" -> LoginPerMinute
      [] route = "list" -> ListPerMinute
      [] route = "create" -> CreatePerMinute
      [] route = "get" -> GetPerMinute
      [] route = "patch" -> PatchPerMinute
      [] OTHER -> DefaultPerMinute

\* The storage key of a limit names the client, the route and the limit itself
\* ("60 per 1 minute"): two limits of the same amount on one route share a counter.
LimitKeys == Clients \X Routes \X ({RouteLimit(r) : r \in Routes} \cup {DefaultPerMinute})
NoHits == [k \in LimitKeys |-> [n |-> 0, exp |-> 0]]

storage_get(h, key, t) == IF h[key].exp <= t THEN 0 ELSE h[key].n

\* storage.incr(key, 60): count the hit; the first hit of a window sets its expiry.
incr(h, key, t) ==
    LET n2 == storage_get(h, key, t) + 1
    IN [h EXCEPT ![key] = [n |-> n2, exp |-> IF n2 = 1 THEN t + Minute ELSE @.exp]]

\* limiter.hit(limit, key): admitted iff the count after the hit is within amount.
hit_ok(h, key, amount, t) == storage_get(h, key, t) + 1 <= amount

\* The storage's expiry timer drops the counters whose window has ended.
expire(h, t) == [k \in LimitKeys |-> IF h[k].exp <= t THEN [n |-> 0, exp |-> 0] ELSE h[k]]

\* ------------------------------------------------------------------ body-size gate
\* _limit_body_mw: TRUE when it raises HTTPException(413).
limit_body_raises(cl) == cl # Nothing /\ cl[1].isdigit /\ cl[1].value > MAX_BODY

\* The status a client sees when _limit_body_mw raises: the middleware was added
\* with add_middleware, so it runs outside the HTTPException handlers and the
\* exception reaches the server-error layer.
limit_body_status == 500

\* ------------------------------------------------------------------ one request
Out(status, stages, h, b, items, token, commit) ==
    [status |-> status, stages |-> stages, hits |-> h, books |-> b,
     items |-> items, token |-> token, commit |-> commit]

NoUser == [status |-> 0, username |-> None, role |-> None]

\* The handler bodies, run once every gate has let the request through.
login_json(req, st, b, h, t) ==
    IF req.creds.username \notin DOMAIN DEMO_USERS
       \/ DEMO_USERS[req.creds.username].password # req.creds.password
    THEN Out(401, st, h, b, <<>>, Nothing, FALSE)
    ELSE Out(200, st, h, b, <<>>,
             Some(create_access_token(req.creds.username,
                                      DEMO_USERS[req.creds.username].role, t)), FALSE)

create_book(req, st, b, h, t) ==
    LET book == Book(NewId(b), req.data, t)
    IN Out(200, st, h, [i \in DOMAIN b \cup {book.id} |-> IF i = book.id THEN book ELSE b[i]],
           <<book>>, Nothing, TRUE)

get_book(req, st, b, h, t) ==
    IF req.id \notin DOMAIN b THEN Out(404, st, h, b, <<>>, Nothing, FALSE)
    ELSE Out(200, st, h, b, <<b[req.id]>>, Nothing, FALSE)

patch_book(req, st, b, h, t) ==
    IF req.id \notin DOMAIN b THEN Out(404, st, h, b, <<>>, Nothing, FALSE)
    ELSE IF updates(req.patch) = {} THEN Out(200, st, h, b, <<b[req.id]>>, Nothing, FALSE)
    ELSE LET book == apply_updates(b[req.id], req.patch)
         IN Out(200, st, h, [b EXCEPT ![req.id] = book], <<book>>, Nothing, TRUE)

\* A delete that answers 204 without committing the removal.
delete_book_kept(req, st, b, h, t) ==
    IF req.id \notin DOMAIN b THEN Out(404, st, h, b, <<>>, Nothing, FALSE)
    ELSE Out(204, st, h, b, <<>>, Nothing, TRUE)

delete_book(req, st, b, h, t) ==
    IF req.id \notin DOMAIN b THEN Out(404, st, h, b, <<>>, Nothing, FALSE)
    ELSE Out(204, st, h, [i \in DOMAIN b \ {req.id} |-> b[i]], <<>>, Nothing, TRUE)

handler(req, st, b, h, t) ==
    CASE req.route = "health" -> Out(200, st, h, b, <<>>, Nothing, FALSE)
      [] req.route = "login" -> login_json(req, st, b, h, t)
      [] req.route = "list" ->
            LET r == list_books(b, req.q)
            IN Out(r.status, st, h, b, r.items, Nothing, FALSE)
      [] req.route = "create" -> create_book(req, st, b, h, t)
      [] req.route = "get" -> get_book(req, st, b, h, t)
      [] req.route = "patch" -> patch_book(req, st, b, h, t)
      [] OTHER -> delete_book(req, st, b, h, t)

\* @limiter.limit(...): the wrapper around a decorated handler counts the call
\* against the route's limit and raises 429 before the handler body.
limited(req, st, b, h, t) ==
    IF req.route \notin Decorated THEN handler(req, st \o <<"handler">>, b, h, t)
    ELSE LET key == <<req.client, req.route, RouteLimit(req.route)>>
             h2 == incr(h, key, t)
         IN IF ~hit_ok(h, key, RouteLimit(req.route), t)
            THEN Out(429, st \o <<"limit">>, h2, b, <<>>, Nothing, FALSE)
            ELSE handler(req, st \o <<"limit", "handler">>, b, h2, t)

\* FastAPI's request handling for a route: the JSON body is read, the
\* dependencies (the guard) are resolved, the parameters are validated, and
\* only then is the (wrapped) handler called.
route_call(req, st, b, h, t) ==
    IF req.route \in BodyRoutes /\ req.body = "malformed"
    THEN Out(422, st \o <<"parse">>, h, b, <<>>, Nothing, FALSE)
    ELSE LET st1 == st \o <<"parse">>
             user == IF req.route \in AdminRoutes THEN require_admin(req.auth, t)
                     ELSE [status |-> 200, username |-> None, role |-> None]
             st2 == IF req.route \in AdminRoutes THEN st1 \o <<"guard">> ELSE st1
         IN IF user.status \in {401, 403, 500}
            THEN Out(user.status, st2, h, b, <<>>, Nothing, FALSE)
            ELSE IF \/ user.status = 422
                    \/ (req.route \in BodyRoutes /\ req.body = "invalid")
                    \/ (req.route = "list" /\ (req.q.limit < LimitMin \/ req.q.limit > LimitMax))
            THEN Out(422, st2 \o <<"validate">>, h, b, <<>>, Nothing, FALSE)
            ELSE limited(req, st2 \o <<"validate">>, b, h, t)

\* SlowAPIMiddleware: counts the request against the default limit.  Whether it
\* does so for a decorated route too depends on the limiter release; `mwd` is
\* that choice.
slowapi_mw(req, st, b, h, t, mwd) ==
    IF req.route \in Decorated /\ ~mwd THEN route_call(req, st \o <<"mw">>, b, h, t)
    ELSE LET key == <<req.client, req.route, DefaultPerMinute>>
             h2 == incr(h, key, t)
         IN IF ~hit_ok(h, key, DefaultPerMinute, t)
            THEN Out(429, st \o <<"mw">>, h2, b, <<>>, Nothing, FALSE)
            ELSE route_call(req, st \o <<"mw">>, b, h2, t)

\* The whole application: the body-size middleware is outermost.
app(req, b, h, t, mwd) ==
    IF limit_body_raises(req.cl)
    THEN Out(limit_body_status, <<"size">>, h, b, <<>>, Nothing, FALSE)
    ELSE slowapi_mw(req, <<"size">>, b, h, t, mwd)

\* ------------------------------------------------------------------ requests
Req(route, client, cl, auth, body, creds, data, patch, id, q) ==
    [route |-> route, client |-> client, cl |-> cl, auth |-> auth, body |-> body,
     creds |-> creds, data |-> data, patch |-> patch, id |-> id, q |-> q]

NoCreds == [username |-> "", password |-> ""]
NoData == [title |-> <<>>, author |-> <<>>, genre |-> None, price |-> 0,
           isbn |-> None, popularity |-> 0]
NoVal == NoData
NoPatch == [sent |-> [k \in Fields |-> "unset"], val |-> NoVal]
Query(search, genre, author, sort, limit, cursor) ==
    [search |-> search, genre |-> genre, author |-> author, sort |-> sort,
     limit |-> limit, cursor |-> cursor]
DefaultQ == Query(Nothing, Nothing, Nothing, "popularity", 20, Nothing)
NoReq == Req("none", "c1", Nothing, Nothing, "ok", NoCreds, NoData, NoPatch, 0, DefaultQ)

\* What get_current_user yields for a request to a guarded route: the AuthUser
\* (status 200) or the error it raises.
GuardOf(req, t) == IF req.route \in AdminRoutes THEN get_current_user(req.auth, t) ELSE NoUser

\* ------------------------------------------------------------------ inputs
Str(a) == <<a>>
Data(title, author, genre, price, isbn, popularity) ==
    [title |-> title, author |-> author, genre |-> genre, price |-> price,
     isbn |-> isbn, popularity |-> popularity]

Dune == Data(<<"a", "b">>, <<"b">>, None, 2, None, 0)
Emma == Data(<<"B">>, <<"a">>, "g", 1, "i", 1)
Datas == {Dune, Emma}

Patch(sent, val) == [sent |-> sent, val |-> val]
Sent(S, N) == [k \in Fields |-> IF k \in S THEN "value" ELSE IF k \in N THEN "null" ELSE "unset"]
TitlePrice == Patch(Sent({"title", "price"}, {"isbn"}), Data(<<"a">>, <<>>, None, 3, None, 0))
Patches ==
    {NoPatch,
     Patch(Sent({}, {"title", "genre"}), NoVal),
     TitlePrice,
     Patch(Sent({"author", "genre", "isbn", "popularity"}, {"price"}),
           Data(<<>>, <<"a", "b">>, "h", 0, "j", 2))}

Ids == 1..MaxId

Length(isdigit, value) == [isdigit |-> isdigit, value |-> value]
ContentLengths == {Nothing, Some(Length(FALSE, 0)), Some(Length(TRUE, MAX_BODY)),
                   Some(Length(TRUE, MAX_BODY + 1))}

\* Tokens a client can present: those login has issued, one issued 61 minutes
\* before the clock's origin, and crafted ones.
OldToken == create_access_token("admin", "admin", 0 - 61 * Minute)
CraftedTokens ==
    {GarbageToken, OldToken,
     Token("jwt", "other-secret", "admin", "admin", NoExp),
     Token("jwt", JWT_SECRET, "admin", NoField, NoExp),
     Token("jwt", JWT_SECRET, NoField, "admin", NoExp)}

Bearer(tok) == Some(<<Word("Bearer"), SP, Tok(tok)>>)

BadForms(tok) ==
    {Nothing, Some(<<>>), Some(<<Word("Bearer")>>), Some(<<Word("Bearer"), SP>>),
     Some(<<Tok(tok)>>), Some(<<Word("Basic"), SP, Tok(tok)>>),
     Some(<<Word("Bearer"), SP, SP, Tok(tok)>>),
     Some(<<Word("Bearer"), SP, Tok(tok), SP>>)}

IssuedTokens == {i.tok : i \in issued}
AdminTokens == {tok \in IssuedTokens : tok.role = "admin"}

\* Well-formed headers carrying an issued token.
IssuedHeaders == {Bearer(tok) : tok \in IssuedTokens}
                 \cup {Some(<<Word("BEARER"), SP, Tok(tok)>>) : tok \in AdminTokens}

\* Every other header: crafted tokens, and ill-formed headers around an issued
\* admin token (or around garbage while there is none).
OtherHeaders ==
    IF focus = "all"
    THEN {Bearer(tok) : tok \in CraftedTokens}
         \cup UNION {BadForms(tok) : tok \in IF AdminTokens = {} THEN {GarbageToken}
                                            ELSE AdminTokens}
    ELSE {Nothing, Bearer(GarbageToken)}

Headers == IssuedHeaders \cup OtherHeaders

Credentials == {[username |-> "admin", password |-> "password"],
                [username |-> "user", password |-> "password"],
                [username |-> "admin", password |-> "wrong"],
                [username |-> "nobody", password |-> "password"]}

\* ------------------------------------------------------------------ bounds of a run
\* focus = "all": every route, MaxReq requests, half-second steps.
\* focus = "token": login and delete, MaxReqToken requests, steps of half a
\*   second and of the token lifetime.
\* focus = "books": the four routes on one book, MaxReqBooks requests with every
\*   id and payload, no step of time.
\* focus = "query": GET /books only, one query or one paging run of at most
\*   MaxPages pages, no step of time.
\* focus = a route: that route only, MaxReqRate requests, half-minute steps, so
\*   that a window fills and ends.
BookRoutes == {"create", "get", "patch", "delete"}
InFocus(route) ==
    IF focus = "all" THEN nreq < MaxReq
    ELSE IF focus = "token" THEN route \in {"login", "delete"} /\ nreq < MaxReqToken
    ELSE IF focus = "query" THEN route = "list" /\ nreq < MaxPages
    ELSE IF focus = "books" THEN route \in BookRoutes /\ nreq < MaxReqBooks
    ELSE focus = route /\ nreq < MaxReqRate
Steps == IF focus = "all" THEN {1}
         ELSE IF focus = "token" THEN {1, ACCESS_TOKEN_MINUTES * Minute}
         ELSE {Minute \div 2}
MaxNow == IF focus = "all" THEN MaxTicks
          ELSE IF focus = "token" THEN ACCESS_TOKEN_MINUTES * Minute + MaxTicks + 1
          ELSE MaxMinutes * Minute
Bodies == {"ok", "invalid", "malformed"}

\* The model stops issuing once MaxIssued tokens are out, and keeps ids in Ids.
Bounded(out) ==
    /\ IF out.token = Nothing THEN TRUE
       ELSE IF \E i \in issued : i.tok = out.token[1] /\ i.at = now THEN TRUE
       ELSE Cardinality(issued) < MaxIssued
    /\ DOMAIN out.books \subseteq Ids

\* What login handed out: the token, when, and the user it was asked for.
Issued(tok, t, u) == [tok |-> tok, at |-> t, sub |-> u, role |-> DEMO_USERS[u].role]

\* One request, served whole: every state change of the pipeline in one step.
Serve(req) ==
    \E out \in {app(req, books, hits, now, mwDefaults)} :
       /\ Bounded(out)
       /\ books' = out.books
       /\ hits' = out.hits
       /\ issued' = IF out.token = Nothing THEN issued
                    ELSE issued \cup {Issued(out.token[1], now, req.creds.username)}
       /\ last' = [req |-> req, at |-> now, status |-> out.status, stages |-> out.stages,
                   items |-> out.items, token |-> out.token, commit |-> out.commit,
                   user |-> IF "guard" \in {out.stages[i] : i \in DOMAIN out.stages}
                            THEN GuardOf(req, now) ELSE NoUser]
       /\ nreq' = nreq + 1
       /\ UNCHANGED <<now, focus, mwDefaults>>

Request(req) == InFocus(req.route) /\ Serve(req) /\ UNCHANGED pager

\* Time passes; the storage's timer expires the finished windows.
Tick(d) ==
    /\ now' = now + d
    /\ hits' = expire(hits, now')
    /\ UNCHANGED <<books, issued, last, nreq, focus, mwDefaults, pager>>

\* ------------------------------------------------------------------ actions
\* The requests tried on each route.  An admin route gets every header on a
\* plain payload, every payload under an admin's header, and the body and
\* length variants under an admin's, a garbage and no header.
AdminHeaders == {Bearer(tok) : tok \in AdminTokens}
ClientsIn == IF focus = "all" THEN Clients ELSE {"c1"}
IdsIn == IF focus \in {"all", "books"} THEN Ids ELSE {1}
PatchesIn == IF focus \in {"all", "books"} THEN Patches ELSE {TitlePrice}
DatasIn == IF focus \in {"all", "books"} THEN Datas ELSE {Dune}
BodiesIn == IF focus = "all" THEN Bodies ELSE {"ok"}
LengthsIn == IF focus = "all" THEN ContentLengths ELSE {Nothing}
ThreeHeaders == AdminHeaders \cup {Nothing, Bearer(GarbageToken)}

HealthReq(cl) == Req("health", "c1", cl, Nothing, "ok", NoCreds, NoData, NoPatch, 0, DefaultQ)
LoginReq(c, creds, body, cl) ==
    Req("login", c, cl, Nothing, body, creds, NoData, NoPatch, 0, DefaultQ)
ListReq(q) == Req("list", "c1", Nothing, Nothing, "ok", NoCreds, NoData, NoPatch, 0, q)
CreateReq(auth, data, body, cl) ==
    Req("create", "c1", cl, auth, body, NoCreds, data, NoPatch, 0, DefaultQ)
GetReq(id) == Req("get", "c1", Nothing, Nothing, "ok", NoCreds, NoData, NoPatch, id, DefaultQ)
PatchReq(auth, id, data, body) ==
    Req("patch", "c1", Nothing, auth, body, NoCreds, NoData, data, id, DefaultQ)
DeleteReq(auth, id) ==
    Req("delete", "c1", Nothing, auth, "ok", NoCreds, NoData, NoPatch, id, DefaultQ)

AdminLogin == [username |-> "admin", password |-> "password"]

Health == \E cl \in LengthsIn : Request(HealthReq(cl))

Login ==
    \E req \in {LoginReq("c1", creds, "ok", Nothing) : creds \in Credentials}
               \cup {LoginReq(c, AdminLogin, "ok", Nothing) : c \in ClientsIn}
               \cup {LoginReq("c1", AdminLogin, body, Nothing) : body \in BodiesIn}
               \cup {LoginReq("c1", AdminLogin, "ok", cl) : cl \in LengthsIn} :
        Request(req)

ListBooks ==
    \E req \in {ListReq(Query(Nothing, Nothing, Nothing, sort, 20, Nothing))
                    : sort \in {"popularity", "price", "title", "id"}}
               \cup {ListReq(Query(Nothing, Nothing, Nothing, "popularity", limit, Nothing))
                    : limit \in {0, 1, 101}} :
        Request(req)

CreateBook ==
    \E req \in {CreateReq(auth, Dune, "ok", Nothing) : auth \in Headers}
               \cup {CreateReq(auth, data, "ok", Nothing) : auth \in AdminHeaders, data \in DatasIn}
               \cup {CreateReq(auth, Dune, body, Nothing) : auth \in ThreeHeaders, body \in BodiesIn}
               \cup {CreateReq(auth, Dune, "ok", cl) : auth \in AdminHeaders, cl \in LengthsIn} :
        Request(req)

GetBook == \E id \in IdsIn : Request(GetReq(id))

PatchBook ==
    \E req \in {PatchReq(auth, 1, TitlePrice, "ok") : auth \in Headers}
               \cup {PatchReq(auth, id, data, "ok") : auth \in AdminHeaders, id \in IdsIn, data \in PatchesIn}
               \cup {PatchReq(auth, 1, TitlePrice, body) : auth \in ThreeHeaders, body \in BodiesIn} :
        Request(req)

DeleteBook ==
    \E req \in {DeleteReq(auth, 1) : auth \in Headers}
               \cup {DeleteReq(auth, id) : auth \in AdminHeaders, id \in IdsIn} :
        Request(req)

\* A short step is taken only within MaxTicks of a multiple of the token lifetime.
Advance ==
    \E d \in Steps :
        /\ now + d <= MaxNow
        /\ d = 1 => now % (ACCESS_TOKEN_MINUTES * Minute) <= MaxTicks
        /\ Tick(d)

Next ==
    \/ Health
    \/ Login
    \/ ListBooks
    \/ CreateBook
    \/ GetBook
    \/ PatchBook
    \/ DeleteBook
    \/ Advance

NextToken ==
    \/ Login
    \/ DeleteBook
    \/ Advance

\* ------------------------------------------------------------------ initial states
\* The service starts on the database file the previous run left, and clients
\* may still hold tokens that run issued: both were produced Before the start.
Before == 0 - Minute
Table(S, f) == [i \in S |-> Book(i, f[i], Before)]
NoBooks == Table({}, <<>>)
StartTables == {NoBooks, Table({1}, <<Dune>>), Table({1, 2}, <<Dune, Emma>>)}
StartIssued == {Issued(create_access_token(u, DEMO_USERS[u].role, Before), Before, u)
                    : u \in DOMAIN DEMO_USERS}

NoLast == [req |-> NoReq, at |-> 0, status |-> 0, stages |-> <<>>, items |-> <<>>,
           token |-> Nothing, commit |-> FALSE, user |-> NoUser]
NoPager == [q |-> DefaultQ, seen |-> <<>>, pages |-> 0, done |-> FALSE]

Start(f) ==
    /\ hits = NoHits
    /\ now = 0
    /\ last = NoLast
    /\ nreq = 0
    /\ focus = f
    /\ mwDefaults \in BOOLEAN
    /\ pager = NoPager

Init ==
    /\ books \in StartTables
    /\ issued = StartIssued
    /\ Start("all")

Spec == Init /\ [][Next]_vars

\* The routes on one book alone, from the same starts.
NextBooks ==
    \/ CreateBook
    \/ GetBook
    \/ PatchBook
    \/ DeleteBook

InitBooks ==
    /\ books \in StartTables
    /\ issued = StartIssued
    /\ Start("books")

SpecBooks == InitBooks /\ [][NextBooks]_vars

\* Login and an admin route across the token lifetime, from a start on a
\* one-row table with no token out.
InitToken ==
    /\ books = Table({1}, <<Dune>>)
    /\ issued = {}
    /\ Start("token")

SpecToken == InitToken /\ [][NextToken]_vars

\* One route under load from one client, from a start on a one-row table with
\* an admin's and a user's token out.
InitRate ==
    /\ books = Table({1}, <<Dune>>)
    /\ issued = StartIssued
    /\ \E r \in Routes : Start(r)

SpecRate == InitRate /\ [][Next]_vars

\* ------------------------------------------------------------------ GET /books alone
\* Three kinds of row; the same kind under two ids gives ties in every sort key.
Anna == Data(<<"a">>, <<"a", "b">>, "g", 0, None, 1)
ListDatas == {Dune, Emma, Anna}
ListTables == UNION {{Table(S, f) : f \in [S -> ListDatas]} : S \in SUBSET Ids}

Sorts == {"popularity", "price", "title"}
Searches == {Nothing, Some(<<>>), Some(<<"b">>), Some(<<"_", "b">>)}
Genres == {Nothing, Some(""), Some("g")}
Authors == {Nothing, Some(<<>>), Some(<<"a">>)}
Cursors == {Nothing} \cup {Some(c) : c \in 0..MaxId}
SearchQueries ==
    {Query(search, genre, author, sort, limit, Nothing)
        : search \in Searches, genre \in Genres, author \in Authors,
          sort \in Sorts, limit \in 1..MaxLimit}
    \cup {Query(Nothing, genre, Nothing, sort, limit, cursor)
        : genre \in {Nothing, Some("g")}, sort \in Sorts,
          limit \in (1..MaxLimit) \cup {20, LimitMax}, cursor \in Cursors}
    \cup {Query(Nothing, Nothing, Nothing, "id", 1, Nothing),
          Query(Nothing, Nothing, Nothing, "price", LimitMin - 1, Nothing),
          Query(Nothing, Nothing, Nothing, "price", LimitMax + 1, Nothing)}
PageQueries ==
    {Query(Nothing, Nothing, Nothing, sort, limit, Nothing)
        : sort \in Sorts, limit \in 1..MaxLimit}

IdsOf(items) == [i \in DOMAIN items |-> items[i].id]

\* One query on the table.
Search ==
    /\ focus = "query" /\ nreq = 0
    /\ \E q \in SearchQueries : Request(ListReq(q))

\* A client pages through the table: the first page without a cursor, every
\* next page with the id of the last row it received, until a page is empty.
Page ==
    /\ focus = "query" /\ nreq = pager.pages /\ ~pager.done
    /\ \E q \in IF pager.pages = 0 THEN PageQueries
                ELSE {[pager.q EXCEPT !.cursor = Some(pager.seen[Len(pager.seen)])]} :
          /\ InFocus("list")
          /\ Serve(ListReq(q))
          /\ pager' = [q |-> q, seen |-> pager.seen \o IdsOf(last'.items),
                       pages |-> pager.pages + 1, done |-> last'.items = <<>>]

NextList ==
    \/ Search
    \/ Page

InitList ==
    /\ books \in ListTables
    /\ issued = StartIssued
    /\ Start("query")

SpecList == InitList /\ [][NextList]_vars

\* ------------------------------------------------------------------ vocabulary of the claims
Stages == {last.stages[i] : i \in DOMAIN last.stages}
Reached(stage) == stage \in Stages
\* The step is a request (not the passing of time).
Served == nreq' = nreq + 1

\* "Bearer <token>", scheme compared case-insensitively.
BearerForm(auth) ==
    /\ auth # Nothing
    /\ Len(auth[1]) = 3
    /\ auth[1][1].k = "word" /\ auth[1][1].w \in {"Bearer", "BEARER", "bearer"}
    /\ auth[1][2].k = "sp"
    /\ auth[1][3].k = "tok"
TokenOf(auth) == auth[1][3].tok
Expired(tok, t) == tok.exp # NoExp /\ tok.exp < Seconds(t)
\* Signed with the service secret, complete, and not expired.
Verifies(tok, t) ==
    /\ tok.shape = "jwt" /\ tok.key = JWT_SECRET
    /\ tok.sub # NoField /\ tok.role # NoField
    /\ ~Expired(tok, t)
ValidWithRole(auth, t, role) ==
    BearerForm(auth) /\ Verifies(TokenOf(auth), t) /\ TokenOf(auth).role = role

\* ------------------------------------------------------------------ C1
\* C1: the books table is changed only by a create, patch or delete request
\* carrying a valid, unexpired admin token; the same request with a valid user
\* token fails with 403, with a missing or invalid token with 401, and in both
\* cases nothing is written.
C1_AsClaimed ==
    (last.req.route \in AdminRoutes /\ Reached("guard")) =>
        /\ last.commit => ValidWithRole(last.req.auth, last.at, "admin")
        /\ ValidWithRole(last.req.auth, last.at, "user") => (last.status = 403 /\ ~last.commit)
        /\ ~(BearerForm(last.req.auth) /\ Verifies(TokenOf(last.req.auth), last.at))
              => (last.status = 401 /\ ~last.commit)

\* ------------------------------------------------------------------ C2
\* C2: on a protected route the guard answers 401, and yields no AuthUser,
\* whenever the header is absent, is not "Bearer <token>", or carries a token
\* that fails verification (bad signature, malformed, no sub or role, expired).
C2_AsClaimed ==
    (/\ last.req.route \in AdminRoutes
     /\ Reached("guard")
     /\ ~(BearerForm(last.req.auth) /\ Verifies(TokenOf(last.req.auth), last.at)))
        => (last.status = 401 /\ last.user.status # 200)

\* ------------------------------------------------------------------ C9
\* C9: a request whose Content-Length is present, numeric and above 1 MiB is
\* answered 413 before any later stage runs and writes nothing; any other
\* request passes the gate.
TooLong(cl) == cl # Nothing /\ cl[1].isdigit /\ cl[1].value > 1048576
C9_AsClaimed ==
    last.req.route \in Routes =>
        IF TooLong(last.req.cl)
        THEN last.status = 413 /\ last.stages = <<"size">> /\ ~last.commit
        ELSE Reached("mw")

\* ------------------------------------------------------------------ C6
\* C6: a successful patch sets exactly the fields present and non-null in the
\* payload, leaves the other fields of the book (id and created_at included)
\* and every other book as they were, and returns the row; with no applicable
\* field it returns the current row and writes nothing.
C6_PatchFrame ==
    [][(Served /\ last'.req.route = "patch" /\ last'.status = 200) =>
          LET id == last'.req.id
              data == last'.req.patch
          IN /\ id \in DOMAIN books
             /\ DOMAIN books' = DOMAIN books
             /\ \A i \in DOMAIN books \ {id} : books'[i] = books[i]
             /\ books'[id].id = books[id].id
             /\ books'[id].created_at = books[id].created_at
             /\ \A k \in Fields :
                   books'[id][k] = IF data.sent[k] = "value" THEN data.val[k] ELSE books[id][k]
             /\ last'.items = <<books'[id]>>
             /\ (\A k \in Fields : data.sent[k] # "value") =>
                   (~last'.commit /\ books' = books)]_vars

\* A patch with a value, a null and unset fields went through on the second row.
C6_Witness ==
    /\ last.req.route = "patch" /\ last.status = 200 /\ last.commit
    /\ last.req.id = 2 /\ last.req.patch = TitlePrice
    /\ 2 \in DOMAIN books /\ books[2].isbn = "i" /\ books[2].price = 3 /\ books[2].genre = "g"

\* ------------------------------------------------------------------ C7
\* C7: an admin's successful delete (204) removes the row, so that a get of the
\* same id that follows answers 404; a delete, get or patch that reaches its
\* handler with an id not in the table answers 404 and leaves the table as it was.
C7_DeleteThenGet ==
    [][Served =>
          LET id == last'.req.id
          IN /\ (last'.req.route = "delete" /\ last'.status = 204) =>
                   (/\ id \in DOMAIN books
                    /\ DOMAIN books' = DOMAIN books \ {id}
                    /\ \A i \in DOMAIN books' : books'[i] = books[i]
                    /\ ValidWithRole(last'.req.auth, last'.at, "admin"))
             /\ (/\ last.req.route = "delete" /\ last.status = 204
                 /\ last'.req.route = "get" /\ id = last.req.id
                 /\ "handler" \in {last'.stages[i] : i \in DOMAIN last'.stages})
                   => last'.status = 404
             /\ (/\ last'.req.route \in {"delete", "get", "patch"}
                 /\ "handler" \in {last'.stages[i] : i \in DOMAIN last'.stages}
                 /\ id \notin DOMAIN books)
                   => (last'.status = 404 /\ books' = books)]_vars

\* Row 1 of the two-row table was deleted and then asked for.
C7_Witness ==
    /\ last.req.route = "get" /\ last.req.id = 1 /\ last.status = 404
    /\ DOMAIN books = {2}

\* ------------------------------------------------------------------ C3
Lifetime == ACCESS_TOKEN_MINUTES * Minute
\* The last request showed the guard the token of issuance i.
Presented(i) ==
    /\ last.req.route \in AdminRoutes /\ Reached("guard")
    /\ last.req.auth = Bearer(i.tok)
AuthUser(i) == [status |-> 200, username |-> i.sub, role |-> i.role]

\* C3 as claimed: a token issued at time t verifies to the same subject and role
\* at every time strictly before t + 60 minutes and fails at every time after.
C3_AsClaimed ==
    \A i \in issued :
        Presented(i) =>
            /\ last.at < i.at + Lifetime => last.user = AuthUser(i)
            /\ last.at > i.at + Lifetime => last.user.status = 401

\* C3, amended: the expiry is kept in whole seconds, floor(t) + 3600, and a
\* token verifies to the same subject and role while the whole-second clock has
\* not passed it (so at every time strictly before t + 60 minutes, whatever was
\* requested in between) and fails once the whole-second clock is past it.
C3_Lifetime ==
    \A i \in issued :
        Presented(i) =>
            IF Seconds(last.at) <= Seconds(i.at) + ACCESS_TOKEN_MINUTES * 60
            THEN last.user = AuthUser(i)
            ELSE last.user.status = 401

\* A token accepted after t + 60 minutes, within the second of its expiry.
C3_Witness ==
    \E i \in issued :
        /\ Presented(i)
        /\ last.at > i.at + Lifetime
        /\ last.user = AuthUser(i)
        /\ last.status = 204 /\ last.commit

\* ------------------------------------------------------------------ C4
ClaimedLimit(route) ==
    CASE route = "login" -> 5
      [] route \in {"create", "patch", "delete", "get"} -> 10
      [] OTHER -> 60

\* C4: per client and route at most N requests are admitted within a minute and
\* each further one answers 429, N being 5 for login, 10 for create, patch,
\* delete and get, 60 otherwise; admitted requests count whether they succeed
\* or fail.  (One client, one route, less than a minute since the start: the
\* nreq requests so far all fall in one window.)
C4_AsClaimed ==
    (focus \in Routes /\ last.req.route = focus /\ now < Minute /\ nreq > ClaimedLimit(focus))
        => last.status = 429

\* ------------------------------------------------------------------ C5
\* C5: the rate gate comes before the authorization guard, so a request to an
\* admin route that is over the route's ceiling answers 429, not 401 or 403.
C5_AsClaimed ==
    (focus \in AdminRoutes /\ last.req.route = focus /\ now < Minute /\ nreq > RouteLimit(focus))
        => last.status = 429


\* ------------------------------------------------------------------ C8
\* What the claim says of the answer to a list request: `Matching` are the rows
\* the filters keep, `InOrder` the order the sort asks for.
Listed == last.req.route = "list" /\ last.status = 200 /\ Reached("handler")
Contains(term, s) == Like(<<"%">> \o term \o <<"%">>, s)
InOrder(sort, a, b) ==
    LET ka == IF sort = "popularity" THEN 0 - a.popularity ELSE a.price
        kb == IF sort = "popularity" THEN 0 - b.popularity ELSE b.price
    IN IF sort = "title"
       THEN StrLess(a.title, b.title) \/ (a.title = b.title /\ a.id < b.id)
       ELSE ka < kb \/ (ka = kb /\ a.id < b.id)
\* items is exactly the first min(limit, n) of the n rows of `matching`.
FirstOf(items, matching, sort, limit) ==
    /\ Len(items) = Min2(limit, Cardinality(matching))
    /\ \A i \in DOMAIN items : items[i] \in matching
    /\ \A i, j \in DOMAIN items : i < j => InOrder(sort, items[i], items[j])
    /\ \A r \in matching :
          (\A i \in DOMAIN items : items[i] # r) =>
              \A i \in DOMAIN items : InOrder(sort, items[i], r)
Rows == {books[i] : i \in DOMAIN books}

\* C8 as claimed: every filter that is supplied restricts the result.
SuppliedMatch(row, q) ==
    /\ q.search # Nothing => (Contains(q.search[1], row.title) \/ Contains(q.search[1], row.author))
    /\ q.genre # Nothing => row.genre = q.genre[1]
    /\ q.author # Nothing => row.author = q.author[1]
C8_AsClaimed ==
    (Listed /\ last.req.q.cursor = Nothing) =>
        /\ last.req.q.sort \in Sorts /\ last.req.q.limit \in LimitMin..LimitMax
        /\ FirstOf(last.items, {r \in Rows : SuppliedMatch(r, last.req.q)},
                   last.req.q.sort, last.req.q.limit)

\* C8, amended: for every table, every combination of filters, every sort in
\* {popularity, price, title} and every limit L in [1,100], list returns exactly
\* the first min(L, n) of the n rows that match all filters supplied with a
\* non-empty value (an empty genre or author is no filter), in the order of the
\* sort with ascending id as tie-break; with sort=price the result is
\* non-decreasing in price and has at most L items.
NonEmptyMatch(row, q) ==
    /\ (q.search # Nothing /\ q.search[1] # <<>>) =>
          (Contains(q.search[1], row.title) \/ Contains(q.search[1], row.author))
    /\ (q.genre # Nothing /\ q.genre[1] # "") => row.genre = q.genre[1]
    /\ (q.author # Nothing /\ q.author[1] # <<>>) => row.author = q.author[1]
C8_ListExact ==
    (Listed /\ last.req.q.cursor = Nothing) =>
        /\ last.req.q.sort \in Sorts /\ last.req.q.limit \in LimitMin..LimitMax
        /\ FirstOf(last.items, {r \in Rows : NonEmptyMatch(r, last.req.q)},
                   last.req.q.sort, last.req.q.limit)
        /\ last.req.q.sort = "price" =>
              /\ Len(last.items) <= last.req.q.limit
              /\ \A i, j \in DOMAIN last.items :
                    i < j => last.items[i].price <= last.items[j].price

\* A list sorted by price that is cut by the limit, filtered by genre, and has
\* a tie in price broken by id.
C8_Witness ==
    /\ Listed /\ last.req.q.cursor = Nothing
    /\ last.req.q.sort = "price" /\ last.req.q.genre = Some("g")
    /\ Len(last.items) = 2
    /\ last.items[1].price = last.items[2].price
    /\ Cardinality({r \in Rows : NonEmptyMatch(r, last.req.q)}) = 3
    /\ Cardinality(Rows) = 3

\* ------------------------------------------------------------------ C10
\* C10: when a cursor is supplied, list restricts the result to the rows with
\* id strictly greater than the cursor (and returns the first of those, in the
\* order of the sort).
C10_CursorRestricts ==
    (Listed /\ last.req.q.cursor # Nothing) =>
        /\ \A i \in DOMAIN last.items : last.items[i].id > last.req.q.cursor[1]
        /\ FirstOf(last.items,
                   {r \in Rows : NonEmptyMatch(r, last.req.q) /\ r.id > last.req.q.cursor[1]},
                   last.req.q.sort, last.req.q.limit)

\* C10: a paging run over an unchanged table, each cursor the id of the last
\* row of the page before, that has ended, has left a row on no page and has
\* shown a row on two pages.
C10_Witness ==
    /\ pager.done /\ pager.pages > 1
    /\ \E i \in DOMAIN books : \A k \in DOMAIN pager.seen : pager.seen[k] # i
    /\ \E k, l \in DOMAIN pager.seen : k # l /\ pager.seen[k] = pager.seen[l]
====
